---- MODULE Spec2Model ----
(***************************************************************************)
(* Model of socket_linux.go: non-blocking socket creation, the epoll       *)
(* poller (create / register / wait), the translation of readiness events  *)
(* into per-socket results, and the classification of connect(2).          *)
(*                                                                         *)
(* The kernel is the environment.  Its part of every system call is        *)
(* modelled next to the call: the descriptor table, the TCP state and the  *)
(* pending error (SO_ERROR) of each socket, the epoll interest list and    *)
(* the epoll ready list (edge-triggered: an entry is queued when it is     *)
(* added while ready or when the socket's state changes, and is taken off  *)
(* the list when epoll_wait reports it).                                   *)
(***************************************************************************)
EXTENDS Integers, Sequences, FiniteSets, TLC

VARIABLES
    fdTable,    \* descriptor -> [st, nonblock, cloexec, quickack, linger, shared]
    sk,         \* descriptor -> [state, soerr, peer]: the kernel's TCP socket
    poller,     \* "none" | "open": the epoll instance of createPoller
    interest,   \* set of descriptors registered with the poller
    rdllist,    \* the epoll ready list, head first
    owned,      \* descriptors createSocket returned without error
    attempt,    \* descriptor -> state of the caller's connect attempt
    delivered,  \* descriptor -> number of events pollEvents returned for it
                \* (counted for the descriptors of its domain)
    ret         \* what the last operation returned

vars == <<fdTable, sk, poller, interest, rdllist, owned, attempt,
          delivered, ret>>

-----------------------------------------------------------------------------
(* Bounds *)

NumSockets == 1         \* descriptors the exploring specification may open
BatchOver == 1          \* descriptors beyond the batch capacity (batch spec)

(* Program constants *)

maxEpollEvents_Doubled == 2 * 32

maxEpollEvents == 32

GOOS == "linux"         \* socket_linux.go is built for linux only

-----------------------------------------------------------------------------
(* Errors.  Every error value is a record, nil included. *)

Nil == [kind |-> "nil"]
Errno(e) == [kind |-> "errno", name |-> e]
NewSyscallError(name, e) == [kind |-> "SyscallError", name |-> name, err |-> e]
newErrConnect(code) == [kind |-> "ErrConnect", code |-> code]

\* errno names of the pending error codes the kernel model produces
ErrnoOfCode(code) ==
    CASE code = 111 -> "ECONNREFUSED"
      [] code = 113 -> "EHOSTUNREACH"
      [] OTHER -> "ECONNABORTED"

Families == {"AF_INET", "AF_INET6"}
Addrs == {"accept", "refuse", "unreach", "bad"}
Handles == {"epfd", "badfd"}
\* timeouts in nanoseconds
Timeouts == {-1000000, -1, 1000000}

FreshFd == [st |-> "unused", nonblock |-> FALSE, cloexec |-> FALSE,
            quickack |-> TRUE, linger |-> FALSE, shared |-> FALSE]
ClosedFd == [FreshFd EXCEPT !.st = "closed"]   \* closed by the caller
FreshSk == [state |-> "fresh", soerr |-> 0, peer |-> "none"]

\* What an operation returned: fd, success, err, events, sAddr and family are
\* the Go results (family is the argument of createSocket in its record);
\* raw is the raw result of the system call behind them, reported the
\* descriptors of the entries EpollWait filled in, in order, reads the
\* (value, err) pairs GetsockoptInt gave for the events, in order, and tAddr
\* what net.ResolveTCPAddr gave.
NoRet == [op |-> "none", fd |-> 0, success |-> FALSE, err |-> Nil,
          events |-> <<>>, raw |-> "nil", reads |-> <<>>, reported |-> <<>>,
          family |-> "none", sAddr |-> "nil", tAddr |-> "nil"]

Fds == DOMAIN fdTable

-----------------------------------------------------------------------------
(* SocketFactory: createSocketZeroLinger and its helpers.  `fail` names the *)
(* system call the kernel fails in this call ("none": all succeed).         *)

LowestUnused(tbl) ==
    CHOOSE fd \in DOMAIN tbl :
        /\ tbl[fd].st = "unused"
        /\ \A g \in DOMAIN tbl : tbl[g].st = "unused" => fd <= g

\* unix.Close(fd): the descriptor's number is free again
Close(tbl, fd) ==
    IF fd \in DOMAIN tbl THEN [tbl EXCEPT ![fd] = FreshFd] ELSE tbl

\* _createSocket without its call of unix.CloseOnExec
_createSocket_NoCloexec(tbl, fail) ==
    IF fail = "socket"
    THEN [tbl |-> tbl, fd |-> -1, err |-> Errno("EMFILE")]
    ELSE LET fd == LowestUnused(tbl)
         IN  [tbl |-> [tbl EXCEPT ![fd].st = "open"], fd |-> fd, err |-> Nil]

\* unix.Socket followed by unix.CloseOnExec
_createSocket(tbl, fail) ==
    IF fail = "socket"
    THEN [tbl |-> tbl, fd |-> -1, err |-> Errno("EMFILE")]
    ELSE LET fd == LowestUnused(tbl)
         IN  [tbl |-> [tbl EXCEPT ![fd].st = "open", ![fd].cloexec = TRUE],
              fd |-> fd, err |-> Nil]

\* unix.SetNonblock, then TCP_QUICKACK := 0
_setSockOpts(tbl, fd, fail) ==
    IF fail = "nonblock"
    THEN [tbl |-> tbl, err |-> Errno("EBADF")]
    ELSE LET t1 == [tbl EXCEPT ![fd].nonblock = TRUE]
         IN  IF fail = "quickack"
             THEN [tbl |-> t1, err |-> Errno("ENOPROTOOPT")]
             ELSE [tbl |-> [t1 EXCEPT ![fd].quickack = FALSE], err |-> Nil]

_createNonBlockingSocket(tbl, fail) ==
    LET c == _createSocket(tbl, fail)
    IN  IF c.err # Nil
        THEN [tbl |-> c.tbl, fd |-> 0, err |-> c.err]
        ELSE LET o == _setSockOpts(c.tbl, c.fd, fail)
             IN  IF o.err # Nil
                 THEN [tbl |-> Close(o.tbl, c.fd), fd |-> c.fd, err |-> o.err]
                 ELSE [tbl |-> o.tbl, fd |-> c.fd, err |-> Nil]

\* unix.SetsockoptLinger(fd, SOL_SOCKET, SO_LINGER, {1, 0})
_setZeroLinger(tbl, fd, fail) ==
    IF fail = "linger"
    THEN [tbl |-> tbl, err |-> Errno("EINVAL")]
    ELSE [tbl |-> [tbl EXCEPT ![fd].linger = TRUE], err |-> Nil]

createSocketZeroLinger(tbl, zeroLinger, fail) ==
    LET c == _createNonBlockingSocket(tbl, fail)
    IN  IF c.err = Nil /\ zeroLinger
        THEN LET l == _setZeroLinger(c.tbl, c.fd, fail)
             IN  [tbl |-> l.tbl, fd |-> c.fd, err |-> l.err]
        ELSE c

SocketFailures == {"none", "socket", "nonblock", "quickack", "linger"}

CreateSocket(family, zeroLinger, fail) ==
    /\ \E fd \in Fds : fdTable[fd].st = "unused"
    /\ fail = "linger" => zeroLinger
    /\ LET r == createSocketZeroLinger(fdTable, zeroLinger, fail)
       IN  /\ fdTable' = r.tbl
           /\ owned' = IF r.err = Nil THEN owned \cup {r.fd} ELSE owned
           /\ attempt' = IF r.err = Nil
                         THEN [attempt EXCEPT ![r.fd] = "Initiated"]
                         ELSE attempt
           /\ ret' = [NoRet EXCEPT !.op = "createSocket", !.fd = r.fd,
                                   !.err = r.err, !.family = family]
    /\ UNCHANGED <<sk, poller, interest, rdllist, delivered>>

-----------------------------------------------------------------------------
(* Poller: createPoller *)

EpollCreateFailures == {"none", "EMFILE"}

createPoller(fail) ==
    IF fail # "none"
    THEN [open |-> FALSE, err |-> NewSyscallError("epoll_create1", Errno(fail))]
    ELSE [open |-> TRUE, err |-> Nil]

CreatePoller(fail) ==
    /\ poller = "none"
    /\ LET r == createPoller(fail)
       IN  /\ poller' = IF r.open THEN "open" ELSE "none"
           /\ ret' = [NoRet EXCEPT !.op = "createPoller", !.err = r.err,
                                   !.raw = IF fail = "none" THEN "nil" ELSE fail]
    /\ UNCHANGED <<fdTable, sk, interest, rdllist, owned, attempt, delivered>>

-----------------------------------------------------------------------------
(* Kernel: TCP state of a socket and the epoll ready list *)

\* tcp_poll reports something for the registered interest (IN | OUT, and
\* ERR | HUP, which are always reported) in every state but SYN_SENT.
Ready(s) == s.state \in {"fresh", "established", "failed"}

InList(q, fd) == \E i \in 1..Len(q) : q[i] = fd

\* the wake-up callback of epoll: queue a registered descriptor once
Wake(q, reg, fd) ==
    IF fd \in reg /\ ~InList(q, fd) THEN Append(q, fd) ELSE q

Without(q, fd) == SelectSeq(q, LAMBDA x : x # fd)

\* the pending error a refused / unreachable connect leaves: ECONNREFUSED,
\* EHOSTUNREACH
PeerCode(peer) ==
    CASE peer = "refuse" -> 111
      [] peer = "unreach" -> 113
      [] OTHER -> 0

\* unix.Connect(fd, addr) on a non-blocking socket: the raw results the kernel
\* can give and the socket state each leaves.
KConnect(tbl, s, fd, addr) ==
    IF tbl[fd].st # "open"
    THEN {[raw |-> "EBADF", sk |-> s]}
    ELSE CASE s.state = "fresh" ->
                IF addr = "bad"
                THEN {[raw |-> e, sk |-> s] :
                        e \in {"EINVAL", "ENETUNREACH", "EAGAIN"}}
                ELSE {[raw |-> e,
                       sk |-> [state |-> "syn_sent", soerr |-> 0, peer |-> addr]] :
                        e \in {"EINPROGRESS", "EINTR"}}
                     \cup
                     (IF addr = "accept"
                      THEN {[raw |-> "nil",
                             sk |-> [state |-> "established", soerr |-> 0,
                                     peer |-> addr]]}
                      ELSE {})
           [] s.state = "syn_sent" -> {[raw |-> "EALREADY", sk |-> s]}
           [] s.state = "established" -> {[raw |-> "EISCONN", sk |-> s]}
           [] s.state = "failed" ->
                {[raw |-> ErrnoOfCode(s.soerr), sk |-> FreshSk]}
           [] OTHER -> {[raw |-> "EBADF", sk |-> s]}

\* The asynchronous end of a connect in progress.
Complete(fd) ==
    /\ sk[fd].state = "syn_sent"
    /\ sk' = [sk EXCEPT ![fd].state =
                            IF sk[fd].peer = "accept" THEN "established"
                                                      ELSE "failed",
                        ![fd].soerr = PeerCode(sk[fd].peer)]
    /\ rdllist' = Wake(rdllist, interest, fd)
    /\ UNCHANGED <<fdTable, poller, interest, owned, attempt, delivered, ret>>

-----------------------------------------------------------------------------
(* ConnectionInitiator: connect *)

\* connect without EINTR in its first case
connect_NoEINTR(serr, goos) ==
    CASE serr \in {"EALREADY", "EINPROGRESS"} -> [success |-> FALSE, err |-> Nil]
      [] serr \in {"nil", "EISCONN"} -> [success |-> TRUE, err |-> Nil]
      [] OTHER -> [success |-> FALSE, err |-> Errno(serr)]

\* connect with the Solaris branch of EINVAL taken on every platform
connect_QuirkEverywhere(serr, goos) ==
    CASE serr \in {"EALREADY", "EINPROGRESS", "EINTR"} ->
            [success |-> FALSE, err |-> Nil]
      [] serr \in {"nil", "EISCONN", "EINVAL"} -> [success |-> TRUE, err |-> Nil]
      [] OTHER -> [success |-> FALSE, err |-> Errno(serr)]

\* connect whose default case forgets the error
connect_SwallowDefault(serr, goos) ==
    CASE serr \in {"EALREADY", "EINPROGRESS", "EINTR"} ->
            [success |-> FALSE, err |-> Nil]
      [] serr \in {"nil", "EISCONN"} -> [success |-> TRUE, err |-> Nil]
      [] serr = "EINVAL" /\ goos = "solaris" -> [success |-> TRUE, err |-> Nil]
      [] serr = "EINVAL" -> [success |-> FALSE, err |-> Errno(serr)]
      [] OTHER -> [success |-> FALSE, err |-> Nil]

\* connect that reports a connect in progress as a failure
connect_InProgressFails(serr, goos) ==
    CASE serr \in {"EALREADY", "EINTR"} -> [success |-> FALSE, err |-> Nil]
      [] serr \in {"nil", "EISCONN"} -> [success |-> TRUE, err |-> Nil]
      [] OTHER -> [success |-> FALSE, err |-> Errno(serr)]

\* the switch on the raw result of unix.Connect
connect(serr, goos) ==
    CASE serr \in {"EALREADY", "EINPROGRESS", "EINTR"} ->
            [success |-> FALSE, err |-> Nil]
      [] serr \in {"nil", "EISCONN"} ->
            [success |-> TRUE, err |-> Nil]
      [] serr = "EINVAL" ->
            IF goos = "solaris"
            THEN [success |-> TRUE, err |-> Nil]
            ELSE [success |-> FALSE, err |-> Errno(serr)]
      [] OTHER ->
            [success |-> FALSE, err |-> Errno(serr)]

\* ConnectOutcome of the data model
Outcome(r) ==
    IF r.success THEN "ImmediateSuccess"
    ELSE IF r.err = Nil THEN "Pending" ELSE "Failed"

\* connect that closes the descriptor when it returns an error
Connect_ClosingOnError(fd, addr) ==
    /\ fd \in owned
    /\ \E k \in KConnect(fdTable, sk[fd], fd, addr) :
         LET r == connect(k.raw, GOOS)
         IN  /\ sk' = [sk EXCEPT ![fd] = k.sk]
             /\ rdllist' = IF k.sk.state = "established" /\ sk[fd].state = "fresh"
                           THEN Wake(rdllist, interest, fd)
                           ELSE rdllist
             /\ attempt' = IF attempt[fd] = "Initiated"
                           THEN [attempt EXCEPT ![fd] = Outcome(r)]
                           ELSE attempt
             /\ fdTable' = IF r.err # Nil THEN Close(fdTable, fd) ELSE fdTable
             /\ ret' = [NoRet EXCEPT !.op = "connect", !.fd = fd,
                                     !.success = r.success, !.err = r.err,
                                     !.raw = k.raw]
    /\ UNCHANGED <<poller, interest, owned, delivered>>

Connect(fd, addr) ==
    /\ fd \in owned
    /\ \E k \in KConnect(fdTable, sk[fd], fd, addr) :
         LET r == connect(k.raw, GOOS)
         IN  /\ sk' = [sk EXCEPT ![fd] = k.sk]
             /\ rdllist' = IF k.sk.state = "established" /\ sk[fd].state = "fresh"
                           THEN Wake(rdllist, interest, fd)
                           ELSE rdllist
             /\ attempt' = IF attempt[fd] = "Initiated"
                           THEN [attempt EXCEPT ![fd] = Outcome(r)]
                           ELSE attempt
             /\ ret' = [NoRet EXCEPT !.op = "connect", !.fd = fd,
                                     !.success = r.success, !.err = r.err,
                                     !.raw = k.raw]
    /\ UNCHANGED <<fdTable, poller, interest, owned, delivered>>

-----------------------------------------------------------------------------
(* Poller: registerEvents *)

\* event.Events: the interest every descriptor is registered with
registeredEvents == {"EPOLLOUT", "EPOLLIN", "EPOLLET"}

EpollCtlName(h, fd) ==
    "epoll_ctl(" \o h \o ", ADD, " \o ToString(fd) \o ", ...)"

\* unix.EpollCtl(pollerFd, EPOLL_CTL_ADD, fd, {OUT | IN | ET, fd})
KEpollCtlAdd(h, fd) ==
    IF h # "epfd" \/ fdTable[fd].st # "open" THEN "EBADF"
    ELSE IF fd \in interest THEN "EEXIST"
    ELSE "nil"

\* registerEvents that takes "already registered" for success
registerEvents_AllowRepeat(h, fd) ==
    LET e == KEpollCtlAdd(h, fd)
    IN  IF e \notin {"nil", "EEXIST"}
        THEN NewSyscallError(EpollCtlName(h, fd), Errno(e))
        ELSE Nil

registerEvents(h, fd) ==
    LET e == KEpollCtlAdd(h, fd)
    IN  IF e # "nil"
        THEN NewSyscallError(EpollCtlName(h, fd), Errno(e))
        ELSE Nil

RegisterEvents(h, fd) ==
    /\ fd \in owned
    /\ h = "epfd" => poller = "open"
    /\ LET err == registerEvents(h, fd)
       IN  /\ interest' = IF err = Nil THEN interest \cup {fd} ELSE interest
           /\ rdllist' = IF err = Nil /\ Ready(sk[fd])
                         THEN Append(rdllist, fd)
                         ELSE rdllist
           /\ ret' = [NoRet EXCEPT !.op = "registerEvents", !.fd = fd,
                                   !.err = err, !.raw = KEpollCtlAdd(h, fd)]
    /\ UNCHANGED <<fdTable, sk, poller, owned, attempt, delivered>>

\* The caller abandons an attempt by closing its descriptor.  With `shared`
\* another descriptor (a dup, a forked child) still refers to the socket, and
\* the kernel keeps the socket and its epoll registration.  The number of a
\* descriptor the caller closed is kept apart ("closed") and not given out
\* again, so that a descriptor names one attempt.
CloseSocket(fd, shared) ==
    /\ fd \in owned
    /\ fdTable[fd].st = "open"
    /\ fdTable' = [Close(fdTable, fd) EXCEPT ![fd] =
                        [ClosedFd EXCEPT !.shared = shared]]
    /\ IF shared
       THEN UNCHANGED <<sk, interest, rdllist>>
       ELSE /\ sk' = [sk EXCEPT ![fd].state = "gone"]
            /\ interest' = interest \ {fd}
            /\ rdllist' = Without(rdllist, fd)
    /\ ret' = [NoRet EXCEPT !.op = "close"]
    /\ UNCHANGED <<poller, owned, attempt, delivered>>

-----------------------------------------------------------------------------
(* Poller: pollEvents, with the EventTranslator in its loop *)

\* Go's integer division truncates toward zero
TruncDiv(a, b) == IF a >= 0 THEN a \div b ELSE -((-a) \div b)

\* int(timeout.Nanoseconds() / 1000000)
timeoutMS(timeout) == TruncDiv(timeout, 1000000)

\* ep_send_events: walk the ready list from its head; an entry whose socket
\* reports nothing now is dropped, the others are reported, until `max` are
\* reported; the rest stays queued.  A reported entry is not queued again if
\* it is edge-triggered, and goes back to the tail of the list if it is not.
RECURSIVE EpSend(_, _, _, _)
EpSend(q, s, max, out) ==
    IF q = <<>> \/ Len(out) >= max
    THEN [fds |-> out, rest |-> q]
    ELSE EpSend(Tail(q), s, max,
                IF Ready(s[Head(q)]) THEN Append(out, Head(q)) ELSE out)

EpSendEvents(q, s, max) == EpSend(q, s, max, <<>>)

\* unix.EpollWait(pollerFd, epollEvents[:], timeoutMS): the results the kernel
\* can give.  With something to report it returns at once; with nothing it
\* sleeps, and returns on a signal (EINTR) or, unless the timeout is negative
\* (no timeout), when the timeout has passed.
KEpollWait(h, q, s, bufLen, ms) ==
    IF h # "epfd"
    THEN {[errno |-> "EBADF", fds |-> <<>>, rest |-> q]}
    ELSE LET d == EpSendEvents(q, s, bufLen)
         IN  IF d.fds # <<>>
             THEN {[errno |-> "nil", fds |-> d.fds,
                    rest |-> IF "EPOLLET" \in registeredEvents
                             THEN d.rest
                             ELSE d.rest \o d.fds]}
             ELSE {[errno |-> "EINTR", fds |-> <<>>, rest |-> d.rest]}
                  \cup
                  (IF ms >= 0
                   THEN {[errno |-> "nil", fds |-> <<>>, rest |-> d.rest]}
                   ELSE {})

\* unix.GetsockoptInt(fd, SOL_SOCKET, SO_ERROR): the pending error, which the
\* read clears; EBADF, and the zero of GetsockoptInt's own variable, when the
\* descriptor is not open.
KGetsockoptInt(tbl, s, fd) ==
    IF tbl[fd].st = "open"
    THEN [value |-> s[fd].soerr, err |-> Nil]
    ELSE [value |-> 0, err |-> Errno("EBADF")]

\* the loop body without its test of errCode
translate_ZeroIsError(errCode, err) == newErrConnect(errCode)

\* the loop body without its connect-error
translate_NoConnectError(errCode, err) ==
    IF err # Nil THEN NewSyscallError("getsockopt", err) ELSE Nil

\* the body of the loop: the error attached to the event
translate(errCode, err) ==
    LET e1 == IF err # Nil THEN NewSyscallError("getsockopt", err) ELSE Nil
    IN  IF errCode # 0 THEN newErrConnect(errCode) ELSE e1

\* the event the loop appends for a reported descriptor
EventOf(tbl, s, fd) ==
    LET g == KGetsockoptInt(tbl, s, fd)
    IN  [Fd |-> fd, Err |-> translate(g.value, g.err)]

\* What unix.GetsockoptInt(fd, SOL_SOCKET, SO_ERROR) can give: the pending
\* error and no error; an error with the zero of its own variable when the
\* kernel refused the descriptor (EBADF, ENOTSOCK); and an error with the
\* pending error stored, when the kernel had written the value out before a
\* getsockopt hook attached to the socket's cgroup rejected the call (EPERM).
PendingCodes == {0, 111, 113}

GetsockoptResults ==
    {[value |-> c, err |-> Nil] : c \in PendingCodes}
    \cup {[value |-> 0, err |-> Errno(e)] : e \in {"EBADF", "ENOTSOCK"}}
    \cup {[value |-> c, err |-> Errno("EPERM")] : c \in PendingCodes}

\* One turn of the loop for a descriptor the wait reported, given the result
\* g of GetsockoptInt.
Translate(fd, g) ==
    /\ ret' = [NoRet EXCEPT !.op = "translate",
                            !.events = <<[Fd |-> fd,
                                          Err |-> translate(g.value, g.err)]>>,
                            !.reads = <<g>>, !.reported = <<fd>>]
    /\ UNCHANGED <<fdTable, sk, poller, interest, rdllist, owned, attempt,
                   delivered>>

\* the loop, building its result last entry first
RECURSIVE Events_Reversed(_, _, _)
Events_Reversed(tbl, s, fds) ==
    IF fds = <<>> THEN <<>>
    ELSE Events_Reversed(tbl, s, Tail(fds)) \o <<EventOf(tbl, s, Head(fds))>>

\* the loop over the first nEvents entries of epollEvents
RECURSIVE Events(_, _, _)
Events(tbl, s, fds) ==
    IF fds = <<>> THEN <<>>
    ELSE <<EventOf(tbl, s, Head(fds))>> \o Events(tbl, s, Tail(fds))

\* pollEvents without the EINTR case
pollEvents_NoEINTR(tbl, s, w) ==
    IF w.errno # "nil"
    THEN [events |-> <<>>, err |-> NewSyscallError("epoll_wait", Errno(w.errno))]
    ELSE [events |-> Events(tbl, s, w.fds), err |-> Nil]

\* pollEvents whose loop stops one entry early
pollEvents_DropLast(tbl, s, w) ==
    IF w.errno # "nil"
    THEN IF w.errno = "EINTR"
         THEN [events |-> <<>>, err |-> Nil]
         ELSE [events |-> <<>>,
               err |-> NewSyscallError("epoll_wait", Errno(w.errno))]
    ELSE [events |-> Events(tbl, s, SubSeq(w.fds, 1, Len(w.fds) - 1)),
          err |-> Nil]

\* pollEvents, given the result w of the wait
pollEvents(tbl, s, w) ==
    IF w.errno # "nil"
    THEN IF w.errno = "EINTR"
         THEN [events |-> <<>>, err |-> Nil]
         ELSE [events |-> <<>>,
               err |-> NewSyscallError("epoll_wait", Errno(w.errno))]
    ELSE [events |-> Events(tbl, s, w.fds), err |-> Nil]

\* what GetsockoptInt gave for each returned event
RECURSIVE Reads(_, _, _)
Reads(tbl, s, evs) ==
    IF evs = <<>> THEN <<>>
    ELSE <<KGetsockoptInt(tbl, s, Head(evs).Fd)>> \o Reads(tbl, s, Tail(evs))

\* a successful read of SO_ERROR clears it
RECURSIVE ClearRead(_, _, _)
ClearRead(tbl, s, evs) ==
    IF evs = <<>> THEN s
    ELSE LET fd == Head(evs).Fd
         IN  ClearRead(tbl,
                       IF tbl[fd].st = "open" THEN [s EXCEPT ![fd].soerr = 0]
                                              ELSE s,
                       Tail(evs))

\* one more event counted for each descriptor of `dom` among the events
RECURSIVE Count(_, _, _)
Count(del, dom, evs) ==
    IF evs = <<>> THEN del
    ELSE Count(IF Head(evs).Fd \in dom
               THEN [del EXCEPT ![Head(evs).Fd] = @ + 1]
               ELSE del,
               dom, Tail(evs))

\* the caller's view of an attempt after an event for it
Completed(a, e) ==
    IF a # "Pending" THEN a
    ELSE IF e.Err = Nil THEN "CompletedSuccess"
    ELSE IF e.Err.kind = "ErrConnect" THEN "CompletedFailure"
    ELSE a

RECURSIVE Advance(_, _)
Advance(att, evs) ==
    IF evs = <<>> THEN att
    ELSE Advance([att EXCEPT ![Head(evs).Fd] = Completed(@, Head(evs))],
                 Tail(evs))

PollEvents(h, timeout) ==
    /\ h = "epfd" => poller = "open"
    /\ \E w \in KEpollWait(h, rdllist, sk, maxEpollEvents, timeoutMS(timeout)) :
       \E r \in {pollEvents(fdTable, sk, w)} :
             /\ rdllist' = w.rest
             /\ sk' = ClearRead(fdTable, sk, r.events)
             /\ delivered' = Count(delivered, DOMAIN delivered, r.events)
             /\ attempt' = Advance(attempt, r.events)
             /\ ret' = [NoRet EXCEPT !.op = "pollEvents", !.err = r.err,
                                     !.events = r.events, !.raw = w.errno,
                                     !.reads = Reads(fdTable, sk, r.events),
                                     !.reported = w.fds]
    /\ UNCHANGED <<fdTable, poller, interest, owned>>

-----------------------------------------------------------------------------
(* AddressResolver: parseSockAddr.  A net.IP is a sequence of bytes; the nil *)
(* IP is the empty sequence.                                                 *)

ByteVals == {0, 127, 255}
Ports == {0, 80, 65535}

IPv4len == 4
IPv6len == 16

v4InV6Prefix == <<0, 0, 0, 0, 0, 0, 0, 0, 0, 0, 255, 255>>

\* net.IP.To4: the 4-byte form of a 4-byte IP or of an IPv4-mapped 16-byte IP
To4(ip) ==
    IF Len(ip) = IPv4len THEN ip
    ELSE IF Len(ip) = IPv6len /\ SubSeq(ip, 1, 12) = v4InV6Prefix
         THEN SubSeq(ip, 13, 16)
         ELSE <<>>

\* net.IP.To16: the 16-byte form of a 4-byte or of a 16-byte IP
To16(ip) ==
    IF Len(ip) = IPv4len THEN v4InV6Prefix \o ip
    ELSE IF Len(ip) = IPv6len THEN ip
         ELSE <<>>

\* copy(dst[:], ip) into a zeroed array of n bytes
Copy(n, ip) == [i \in 1..n |-> IF i <= Len(ip) THEN ip[i] ELSE 0]

\* net.IP.String for the addresses that reach it
IPString(ip) == IF Len(ip) = 0 THEN "<nil>" ELSE "?"

\* What net.ResolveTCPAddr("tcp", addr) can give: an error, or a TCPAddr
\* whose IP has no byte (":80"), 4 bytes or 16 bytes.
IP4s == [1..IPv4len -> ByteVals]
IP6Prefixes == {v4InV6Prefix,
                <<0, 0, 0, 0, 0, 0, 0, 0, 0, 0, 0, 0>>,
                <<0, 0, 0, 0, 0, 0, 0, 0, 0, 0, 0, 255>>,
                <<254, 128, 0, 0, 0, 0, 0, 0, 0, 0, 255, 255>>}
IPs == {<<>>} \cup IP4s \cup {p \o t : p \in IP6Prefixes, t \in IP4s}

ResolveTCPAddr ==
    {[err |-> Errno("AddrError"), IP |-> <<>>, Port |-> 0]}
    \cup {[err |-> Nil, IP |-> ip, Port |-> port] : ip \in IPs, port \in Ports}

\* parseSockAddr that tries the 16-byte form first
parseSockAddr_V6First(tAddr) ==
    IF tAddr.err # Nil
    THEN [sAddr |-> Nil, family |-> "AF_UNSPEC", err |-> tAddr.err]
    ELSE IF To16(tAddr.IP) # <<>>
    THEN [sAddr |-> [kind |-> "SockaddrInet6", Port |-> tAddr.Port,
                     Addr |-> Copy(IPv6len, To16(tAddr.IP))],
          family |-> "AF_INET6", err |-> Nil]
    ELSE IF To4(tAddr.IP) # <<>>
    THEN [sAddr |-> [kind |-> "SockaddrInet4", Port |-> tAddr.Port,
                     Addr |-> Copy(IPv4len, To4(tAddr.IP))],
          family |-> "AF_INET", err |-> Nil]
    ELSE [sAddr |-> Nil, family |-> "AF_UNSPEC",
          err |-> [kind |-> "AddrError", Err |-> "unsupported address family",
                   Addr |-> IPString(tAddr.IP)]]

\* parseSockAddr, given the result tAddr of net.ResolveTCPAddr
parseSockAddr(tAddr) ==
    IF tAddr.err # Nil
    THEN [sAddr |-> Nil, family |-> "AF_UNSPEC", err |-> tAddr.err]
    ELSE IF To4(tAddr.IP) # <<>>
    THEN [sAddr |-> [kind |-> "SockaddrInet4", Port |-> tAddr.Port,
                     Addr |-> Copy(IPv4len, To4(tAddr.IP))],
          family |-> "AF_INET", err |-> Nil]
    ELSE IF To16(tAddr.IP) # <<>>
    THEN [sAddr |-> [kind |-> "SockaddrInet6", Port |-> tAddr.Port,
                     Addr |-> Copy(IPv6len, To16(tAddr.IP))],
          family |-> "AF_INET6", err |-> Nil]
    ELSE [sAddr |-> Nil, family |-> "AF_UNSPEC",
          err |-> [kind |-> "AddrError", Err |-> "unsupported address family",
                   Addr |-> IPString(tAddr.IP)]]

ParseSockAddr(tAddr) ==
    /\ LET r == parseSockAddr(tAddr)
       IN  ret' = [NoRet EXCEPT !.op = "parseSockAddr", !.tAddr = tAddr,
                                !.sAddr = r.sAddr, !.family = r.family,
                                !.err = r.err]
    /\ UNCHANGED <<fdTable, sk, poller, interest, rdllist, owned, attempt,
                   delivered>>

-----------------------------------------------------------------------------
(* The exploring specification: a caller that may do anything the interface *)
(* allows, on up to NumSockets descriptors.                                 *)

Init ==
    /\ fdTable = [fd \in 1..NumSockets |-> FreshFd]
    /\ sk = [fd \in 1..NumSockets |-> FreshSk]
    /\ poller = "none"
    /\ interest = {}
    /\ rdllist = <<>>
    /\ owned = {}
    /\ attempt = [fd \in 1..NumSockets |-> "None"]
    /\ delivered = <<>>
    /\ ret = NoRet

Next ==
    \/ \E f \in Families, z \in BOOLEAN, x \in SocketFailures : CreateSocket(f, z, x)
    \/ \E x \in EpollCreateFailures : CreatePoller(x)
    \/ \E fd \in Fds, a \in Addrs : Connect(fd, a)
    \/ \E fd \in Fds : Complete(fd)
    \/ \E h \in Handles, fd \in Fds : RegisterEvents(h, fd)
    \/ \E h \in Handles, t \in Timeouts : PollEvents(h, t)
    \/ \E fd \in Fds, b \in BOOLEAN : CloseSocket(fd, b)

Spec == Init /\ [][Next]_vars

-----------------------------------------------------------------------------
(* The batch specification: more descriptors than one wait can report, all  *)
(* created, connect-initiated (in progress) and registered with the poller. *)
(* The descriptors are interchangeable, so the connects are taken to end in *)
(* descriptor order.                                                        *)

BatchFds == 1..(maxEpollEvents + BatchOver)

OpenFd == [st |-> "open", nonblock |-> TRUE, cloexec |-> TRUE,
           quickack |-> FALSE, linger |-> FALSE, shared |-> FALSE]

InitBatch ==
    /\ fdTable = [fd \in BatchFds |-> OpenFd]
    /\ sk = [fd \in BatchFds |->
               [state |-> "syn_sent", soerr |-> 0,
                peer |-> IF fd % 2 = 1 THEN "accept" ELSE "refuse"]]
    /\ poller = "open"
    /\ interest = BatchFds
    /\ rdllist = <<>>
    /\ owned = BatchFds
    /\ attempt = [fd \in BatchFds |-> "Pending"]
    /\ delivered = [fd \in BatchFds |-> 0]
    /\ ret = NoRet

CompleteNext ==
    \E fd \in Fds :
        /\ \A g \in Fds : g < fd => sk[g].state # "syn_sent"
        /\ Complete(fd)

\* a pollEvents call on the poller's handle
PollValid == \E t \in Timeouts : PollEvents("epfd", t)

NextBatch ==
    \/ CompleteNext
    \/ \E h \in Handles, t \in Timeouts : PollEvents(h, t)

SpecBatch ==
    /\ InitBatch
    /\ [][NextBatch]_vars
    /\ WF_vars(CompleteNext)
    /\ WF_vars(PollValid)

-----------------------------------------------------------------------------
(* The race specification: descriptor 1 connects to address A, which        *)
(* refuses, descriptor 2 to address B, which accepts; each is connected     *)
(* once and registered once with the one poller, in any order.              *)

RaceFds == {1, 2}
RaceAddr(fd) == IF fd = 1 THEN "refuse" ELSE "accept"

InitRace ==
    /\ fdTable = [fd \in RaceFds |-> OpenFd]
    /\ sk = [fd \in RaceFds |-> FreshSk]
    /\ poller = "open"
    /\ interest = {}
    /\ rdllist = <<>>
    /\ owned = RaceFds
    /\ attempt = [fd \in RaceFds |-> "Initiated"]
    /\ delivered = [fd \in RaceFds |-> 0]
    /\ ret = NoRet

RaceConnect(fd) == attempt[fd] = "Initiated" /\ Connect(fd, RaceAddr(fd))
RaceRegister(fd) == fd \notin interest /\ RegisterEvents("epfd", fd)

NextRace ==
    \/ \E fd \in Fds : RaceConnect(fd)
    \/ \E fd \in Fds : RaceRegister(fd)
    \/ \E fd \in Fds : Complete(fd)
    \/ PollValid

SpecRace ==
    /\ InitRace
    /\ [][NextRace]_vars
    /\ \A fd \in RaceFds : WF_vars(RaceConnect(fd))
    /\ \A fd \in RaceFds : WF_vars(RaceRegister(fd))
    /\ \A fd \in RaceFds : WF_vars(Complete(fd))
    /\ WF_vars(PollValid)

-----------------------------------------------------------------------------
(* The flow specification: a caller that uses each descriptor for one       *)
(* attempt: it creates the socket, connects it once and registers it once    *)
(* with the poller, before the connect or after a connect that is pending,   *)
(* and waits; it may close a descriptor at any time.                         *)

FlowConnect(fd, addr) == attempt[fd] = "Initiated" /\ Connect(fd, addr)

FlowRegister(fd) ==
    /\ attempt[fd] \in {"Initiated", "Pending"}
    /\ fd \notin interest
    /\ fdTable[fd].st = "open"
    /\ RegisterEvents("epfd", fd)

NextFlow ==
    \/ \E f \in Families, z \in BOOLEAN, x \in SocketFailures : CreateSocket(f, z, x)
    \/ \E x \in EpollCreateFailures : CreatePoller(x)
    \/ \E fd \in Fds, a \in Addrs : FlowConnect(fd, a)
    \/ \E fd \in Fds : FlowRegister(fd)
    \/ \E fd \in Fds : Complete(fd)
    \/ \E h \in Handles, t \in Timeouts : PollEvents(h, t)
    \/ \E fd \in Fds, b \in BOOLEAN : CloseSocket(fd, b)

SpecFlow == Init /\ [][NextFlow]_vars

-----------------------------------------------------------------------------
(* The specification of the pure parts: parseSockAddr applied to every       *)
(* result of the resolver, and the body of the loop of pollEvents applied to *)
(* every result of the read of the pending error.                            *)

NextPure ==
    \/ \E tAddr \in ResolveTCPAddr : ParseSockAddr(tAddr)
    \/ \E fd \in Fds, g \in GetsockoptResults : Translate(fd, g)

SpecPure == Init /\ [][NextPure]_vars

-----------------------------------------------------------------------------
(* Claims *)

IsPoll == ret.op = "pollEvents"
IsConnect == ret.op = "connect"

PendingClass == {"EALREADY", "EINPROGRESS", "EINTR"}
SuccessClass == {"nil", "EISCONN"}

\* C1: a createSocket call that fails after the raw socket was allocated has
\* closed it before returning: no descriptor the call opened remains open.
C1_NoLeakOnFailure ==
    (ret.op = "createSocket" /\ ret.err # Nil) =>
        \A fd \in Fds : fdTable[fd].st = "open" => fd \in owned

C3_SuccessExactly ==
    IsConnect =>
        /\ ret.success <=> ret.raw \in SuccessClass
        /\ ret.success => ret.err = Nil

C3_Witness == IsConnect /\ ret.raw = "EISCONN" /\ ret.success

\* C4: every other raw connect error, EINVAL included, is returned as
\* (false, err) with err that raw error.
C4_OtherErrorsReturned ==
    (IsConnect /\ ret.raw \notin PendingClass \cup SuccessClass) =>
        (~ret.success /\ ret.err = Errno(ret.raw))

C4_Witness == IsConnect /\ ret.raw = "EINVAL" /\ attempt[ret.fd] = "Failed"

\* C5: an interrupted wait makes pollEvents return no events and a nil error;
\* every other failure of the wait is returned as an error, with no events.
C5_InterruptAbsorbed ==
    IsPoll =>
        /\ ret.raw = "EINTR" => (ret.events = <<>> /\ ret.err = Nil)
        /\ ret.raw \notin {"nil", "EINTR"} =>
              (ret.events = <<>> /\ ret.err # Nil /\ ret.err.err = Errno(ret.raw))

C5_Witness == IsPoll /\ ret.raw = "EINTR" /\ ret.err = Nil

\* C6: every pollEvents call returns at most 32 events, however many
\* registered descriptors are ready when it is called.
C6_AtMostBatchCapacity == IsPoll => Len(ret.events) <= 32

\* a call that filled the batch while more ready descriptors stayed queued
C6_Witness == IsPoll /\ Len(ret.events) = 32 /\ rdllist # <<>>

\* C7: with more descriptors registered than the batch capacity, repeated
\* pollEvents calls deliver exactly one event per connect completion: no
\* descriptor is reported before its connect ended or more than once, a
\* completion not yet reported is still queued for a later call, and every
\* completion is eventually reported.
C7_ExactlyOncePerCompletion ==
    /\ [](\A fd \in BatchFds :
            /\ delivered[fd] <= (IF sk[fd].state = "syn_sent" THEN 0 ELSE 1)
            /\ sk[fd].state # "syn_sent" =>
                  (delivered[fd] = 1 \/ InList(rdllist, fd)))
    /\ <>[](\A fd \in BatchFds : delivered[fd] = 1)

\* every descriptor reported, the last of them in a call after a full batch
C7_Witness ==
    /\ \A fd \in BatchFds : delivered[fd] = 1
    /\ IsPoll /\ Len(ret.events) = BatchOver

\* C8: for every returned event whose read of the pending error succeeded,
\* the event's error is nil exactly when the code read is zero, and is the
\* connect-error carrying that code otherwise.
C8_EventErrorMatchesCode ==
    IsPoll =>
        \A i \in 1..Len(ret.events) :
            ret.reads[i].err = Nil =>
                /\ ret.events[i].Err = Nil <=> ret.reads[i].value = 0
                /\ ret.reads[i].value # 0 =>
                      ret.events[i].Err =
                          [kind |-> "ErrConnect", code |-> ret.reads[i].value]

C8_Witness ==
    /\ IsPoll
    /\ \E i \in 1..Len(ret.events) :
          /\ ret.reads[i].err = Nil
          /\ ret.reads[i].value # 0
          /\ ret.events[i].Err # Nil

ReportedFailure(fd) ==
    /\ IsPoll
    /\ \E i \in 1..Len(ret.events) :
          /\ ret.events[i].Fd = fd
          /\ ret.events[i].Err.kind = "ErrConnect"
          /\ ret.events[i].Err.code # 0

ReportedSuccess(fd) ==
    /\ IsPoll
    /\ attempt[fd] \in {"ImmediateSuccess", "CompletedSuccess"}
    /\ \E i \in 1..Len(ret.events) :
          ret.events[i].Fd = fd /\ ret.events[i].Err = Nil

\* C9: in the race, under fair repeated pollEvents calls, the refused
\* attempt (descriptor 1) is eventually reported with a connect-error of
\* non-zero code and the accepted one (descriptor 2) with no error, whatever
\* the order of the connects, registrations and completions.
C9_RaceResolves == <>ReportedFailure(1) /\ <>ReportedSuccess(2)

\* one call that reports both
C9_Witness == Len(ret.events) = 2 /\ ReportedFailure(1) /\ ReportedSuccess(2)

AcceptFds == {fd \in RaceFds : RaceAddr(fd) = "accept"}

\* C10: an attempt to an accepting peer never fails: connect returns no
\* error, no event for the descriptor carries an error, and a pending attempt
\* that is registered is eventually reported with no error.
C10_AcceptingPeerNeverFails ==
    /\ [](\A fd \in AcceptFds :
            /\ (IsConnect /\ ret.fd = fd) => ret.err = Nil
            /\ IsPoll => \A i \in 1..Len(ret.events) :
                            ret.events[i].Fd = fd => ret.events[i].Err = Nil)
    /\ \A fd \in AcceptFds :
          (attempt[fd] = "Pending" /\ fd \in interest)
              ~> (attempt[fd] = "CompletedSuccess")

C10_Witness ==
    \E fd \in AcceptFds :
        /\ attempt[fd] = "CompletedSuccess"
        /\ IsPoll
        /\ \E i \in 1..Len(ret.events) : ret.events[i].Fd = fd

\* C11: for every timeout the caller can pass, a pollEvents call with nothing
\* ready and no interrupt returns when the timeout has passed, with an empty
\* list and no error: the millisecond value handed to the wait never denotes
\* a longer or an unbounded wait.
C11_WaitBoundedByTimeout ==
    (poller = "open" /\ EpSendEvents(rdllist, sk, maxEpollEvents).fds = <<>>) =>
        \A t \in Timeouts :
            \E w \in KEpollWait("epfd", rdllist, sk, maxEpollEvents,
                                timeoutMS(t)) :
                /\ w.errno # "EINTR"
                /\ pollEvents(fdTable, sk, w) = [events |-> <<>>, err |-> Nil]

\* C12: a descriptor is registered with a poller at most once: a
\* registerEvents call for a descriptor already registered with that poller
\* returns an error (EEXIST from the poller, wrapped) and leaves the
\* registrations and the queued events as they were.  (A step that changes
\* what was returned last into a result of registerEvents is a call of it.)
C12_RegisteredAtMostOnce ==
    [][\A fd \in Fds :
          (/\ fd \in interest
           /\ ret' # ret /\ ret'.op = "registerEvents" /\ ret'.fd = fd) =>
              /\ ret'.err # Nil
              /\ (ret'.err.name = EpollCtlName("epfd", fd)
                    /\ fdTable[fd].st = "open") =>
                    ret'.err.err = Errno("EEXIST")
              /\ interest' = interest
              /\ rdllist' = rdllist]_vars

C12_Witness ==
    /\ ret.op = "registerEvents"
    /\ ret.fd \in interest
    /\ ret.err # Nil
    /\ ret.err.err = Errno("EEXIST")

\* C13: every descriptor a successful createSocket returned is open, in
\* non-blocking mode and marked close-on-exec, for both address families and
\* both values of abortOnClose.
C13_NonBlockingCloseOnExec ==
    /\ (ret.op = "createSocket" /\ ret.err = Nil) =>
          /\ ret.fd \in owned
          /\ fdTable[ret.fd].st = "open"
    /\ \A fd \in owned :
          fdTable[fd].st = "open" =>
              (fdTable[fd].nonblock /\ fdTable[fd].cloexec)

\* an IPv6 socket created with abortOnClose
C13_Witness ==
    /\ ret.op = "createSocket" /\ ret.err = Nil
    /\ ret.family = "AF_INET6"
    /\ fdTable[ret.fd].linger
    /\ fdTable[ret.fd].nonblock /\ fdTable[ret.fd].cloexec

\* the resolved IP has an IPv4 form: 4 bytes, or 16 bytes IPv4-mapped
HasIPv4(ip) ==
    \/ Len(ip) = 4
    \/ /\ Len(ip) = 16
       /\ \A i \in 1..10 : ip[i] = 0
       /\ ip[11] = 255 /\ ip[12] = 255

HasIPv6(ip) == Len(ip) = 16

\* C14: parseSockAddr gives IPv4 priority: a resolved address with an IPv4
\* form (IPv4-mapped IPv6 included) yields an IPv4 address with family
\* AF_INET and the four IPv4 bytes; otherwise one with an IPv6 form yields an
\* IPv6 address with family AF_INET6 and its sixteen bytes; one with neither
\* fails with the unsupported-family error; the port is carried over
\* unchanged.
C14_IPv4Priority ==
    (ret.op = "parseSockAddr" /\ ret.tAddr.err = Nil) =>
        LET ip == ret.tAddr.IP
        IN  /\ HasIPv4(ip) =>
                  /\ ret.err = Nil /\ ret.family = "AF_INET"
                  /\ ret.sAddr.kind = "SockaddrInet4"
                  /\ ret.sAddr.Port = ret.tAddr.Port
                  /\ Len(ret.sAddr.Addr) = 4
                  /\ \A i \in 1..4 : ret.sAddr.Addr[i] = ip[Len(ip) - 4 + i]
            /\ (~HasIPv4(ip) /\ HasIPv6(ip)) =>
                  /\ ret.err = Nil /\ ret.family = "AF_INET6"
                  /\ ret.sAddr.kind = "SockaddrInet6"
                  /\ ret.sAddr.Port = ret.tAddr.Port
                  /\ ret.sAddr.Addr = ip
            /\ (~HasIPv4(ip) /\ ~HasIPv6(ip)) =>
                  /\ ret.err # Nil /\ ret.err.kind = "AddrError"
                  /\ ret.err.Err = "unsupported address family"
                  /\ ret.sAddr = Nil

\* an IPv4-mapped IPv6 address resolved to an IPv4 address, port kept
C14_Witness ==
    /\ ret.op = "parseSockAddr"
    /\ Len(ret.tAddr.IP) = 16
    /\ ret.family = "AF_INET"
    /\ ret.sAddr.Addr = <<127, 0, 0, 127>>
    /\ ret.sAddr.Port = 80

\* C15: if the read of a ready descriptor's pending error fails, the event
\* for that descriptor carries that failure, as a getsockopt syscall error,
\* whatever value the failed read left in the error-code variable.
C15_ReadFailureAttached ==
    \A i \in 1..Len(ret.reads) :
        ret.reads[i].err # Nil =>
            ret.events[i].Err = NewSyscallError("getsockopt", ret.reads[i].err)

Terminal ==
    {"ImmediateSuccess", "Failed", "CompletedSuccess", "CompletedFailure"}

\* the event reports the other outcome than the one the attempt has: a
\* connect-error for a success, no error for a failure (an event that carries
\* a failed read reports no outcome)
Contradicts(a, e) ==
    IF a \in {"ImmediateSuccess", "CompletedSuccess"}
    THEN e.Err # Nil /\ e.Err.kind = "ErrConnect"
    ELSE e.Err = Nil

\* C16: each attempt follows the connect state machine and no other
\* transition: a connect call moves an Initiated attempt to exactly one of
\* ImmediateSuccess, Pending and Failed, as its result says; only a Pending
\* attempt moves on, with an event of a pollEvents call, to Completed-Success
\* (nil error) or Completed-Failure (connect-error); and no pollEvents call
\* returns, for an attempt that is ImmediateSuccess, Failed, Completed-Success
\* or Completed-Failure, an event that reports another outcome.
C16_ConnectStateMachine ==
    [][\A fd \in Fds :
        /\ attempt'[fd] # attempt[fd] =>
              \/ /\ attempt[fd] = "None" /\ attempt'[fd] = "Initiated"
                 /\ ret'.op = "createSocket" /\ ret'.fd = fd /\ ret'.err = Nil
              \/ /\ attempt[fd] = "Initiated"
                 /\ ret'.op = "connect" /\ ret'.fd = fd
                 /\ \/ attempt'[fd] = "ImmediateSuccess"
                       /\ ret'.success /\ ret'.err = Nil
                    \/ attempt'[fd] = "Pending"
                       /\ ~ret'.success /\ ret'.err = Nil
                    \/ attempt'[fd] = "Failed"
                       /\ ~ret'.success /\ ret'.err # Nil
              \/ /\ attempt[fd] = "Pending"
                 /\ ret'.op = "pollEvents"
                 /\ \E i \in 1..Len(ret'.events) :
                       /\ ret'.events[i].Fd = fd
                       /\ \/ attempt'[fd] = "CompletedSuccess"
                             /\ ret'.events[i].Err = Nil
                          \/ attempt'[fd] = "CompletedFailure"
                             /\ ret'.events[i].Err # Nil
                             /\ ret'.events[i].Err.kind = "ErrConnect"
        /\ (attempt[fd] = "Initiated" /\ \E a \in Addrs : Connect(fd, a)) =>
              attempt'[fd] \in {"ImmediateSuccess", "Pending", "Failed"}
        /\ (attempt[fd] \in Terminal
              /\ \E h \in Handles, t \in Timeouts : PollEvents(h, t)) =>
              \A i \in 1..Len(ret'.events) :
                  ret'.events[i].Fd = fd =>
                      ~Contradicts(attempt[fd], ret'.events[i])
      ]_vars

\* C17: pollEvents does not invent or reorder events: it returns one event
\* per entry the wait reported, in the order the wait reported them, and
\* every event names a descriptor registered with the poller by
\* registerEvents.
C17_NoInventedEvents ==
    IsPoll =>
        /\ Len(ret.events) = Len(ret.reported)
        /\ \A i \in 1..Len(ret.events) :
              /\ ret.events[i].Fd = ret.reported[i]
              /\ ret.events[i].Fd \in interest

\* two events in one call, the higher descriptor reported first
C17_Witness ==
    /\ IsPoll
    /\ Len(ret.events) = 2
    /\ ret.events[1].Fd = 2 /\ ret.events[2].Fd = 1
    /\ ret.reported = <<2, 1>>

\* C18: no core operation closes a descriptor it was given or returned
\* successfully: connect, registerEvents and pollEvents leave every socket
\* descriptor and the poller handle as they are, whether they succeed or
\* fail; createPoller closes no socket descriptor, and createSocket leaves
\* the poller handle and every descriptor that was open before the call as
\* they are (it closes only the descriptor it is cleaning up).  Every step
\* that ends with one of these operations as the last one returned is a step
\* of that operation or the end of a connect in progress.
C18_CoreClosesNothing ==
    [][/\ ret'.op \in {"connect", "registerEvents", "pollEvents"} =>
              (fdTable' = fdTable /\ poller' = poller)
       /\ ret'.op = "createPoller" =>
              (fdTable' = fdTable /\ (poller = "open" => poller' = "open"))
       /\ ret'.op = "createSocket" =>
              /\ poller' = poller
              /\ \A fd \in Fds :
                    fdTable[fd].st = "open" => fdTable'[fd] = fdTable[fd]
      ]_vars

\* a connect that failed and left its descriptor and the poller open
C18_Witness ==
    /\ IsConnect /\ ret.err # Nil
    /\ fdTable[ret.fd].st = "open"
    /\ poller = "open"

\* C19: every failure of the poller's creation, of a registration, of the
\* wait (the interrupt apart) and of the read of the pending error is
\* surfaced as a SyscallError that wraps the raw cause and is named
\* epoll_create, epoll_ctl, epoll_wait and getsockopt respectively.
C19_NamedSyscallErrors ==
    /\ (ret.op = "createPoller" /\ ret.raw # "nil") =>
          ret.err = NewSyscallError("epoll_create", Errno(ret.raw))
    /\ (ret.op = "registerEvents" /\ ret.raw # "nil") =>
          ret.err = NewSyscallError("epoll_ctl", Errno(ret.raw))
    /\ (IsPoll /\ ret.raw \notin {"nil", "EINTR"}) =>
          ret.err = NewSyscallError("epoll_wait", Errno(ret.raw))
    /\ \A i \in 1..Len(ret.reads) :
          ret.reads[i].err # Nil =>
              /\ ret.events[i].Err.kind = "SyscallError"
              /\ ret.events[i].Err.name = "getsockopt"
              /\ ret.events[i].Err.err = ret.reads[i].err

\* C20: no false success: pollEvents returns an event with a nil error for a
\* registered descriptor only if that descriptor's connection is established
\* at that moment, never for one whose connect is in progress, has failed or
\* was never initiated.
C20_NoFalseSuccess ==
    IsPoll =>
        \A i \in 1..Len(ret.events) :
            ret.events[i].Err = Nil =>
                sk[ret.events[i].Fd].state = "established"

====
